---- MODULE Spec2Model ----
(***************************************************************************)
(* A model of the radix tree of radix.go: nodes with a compressed prefix,  *)
(* an optional leaf and a label-sorted edge list; Insert with node         *)
(* splitting, Delete with node merging, DeletePrefix, and the lookups and  *)
(* walks built on Find and recursiveWalk.                                  *)
(*                                                                         *)
(* A *Node is modelled by the node's value, nested in its parent's edge    *)
(* list; the tree is a strict tree (no node is shared), so an assignment   *)
(* through a pointer is the replacement of that child in its parent        *)
(* (SetChild).  A nil pointer is the empty sequence <<>>, a non-nil        *)
(* pointer to x is <<x>>.  An interface{} value is <<>> for nil and <<i>>  *)
(* for the integer i.                                                      *)
(***************************************************************************)
EXTENDS Integers, Sequences, FiniteSets, TLC

VARIABLES root, size, stored, panicked

vars == <<root, size, stored, panicked>>

----------------------------------------------------------------------------
(* Bounds of the model *)

MaxKeyLen == 3
MaxNodes == 4

\* the bytes keys are made of ('a', 'b')
Alphabet == {97, 98}

\* interface{} values
Nil == <<>>
IntVal(i) == <<i>>
Values == {IntVal(1), IntVal(2)}

Keys == UNION {[1..n -> Alphabet] : n \in 0..MaxKeyLen}

----------------------------------------------------------------------------
(* Strings *)

Take(s, n) == SubSeq(s, 1, n)
Drop(s, n) == SubSeq(s, n + 1, Len(s))

\* strings.HasPrefix(s, p)
HasPrefix(s, p) == Len(p) <= Len(s) /\ Take(s, Len(p)) = p

RECURSIVE longestPrefixFrom(_, _, _, _)
longestPrefixFrom(k1, k2, i, max) ==
    IF i < max /\ k1[i + 1] = k2[i + 1]
    THEN longestPrefixFrom(k1, k2, i + 1, max)
    ELSE i

\* longestPrefix whose loop never breaks
longestPrefix_NoBreak(k1, k2) ==
    IF Len(k2) < Len(k1) THEN Len(k2) ELSE Len(k1)

\* the length of the shared prefix of two strings
longestPrefix(k1, k2) ==
    LET max == IF Len(k2) < Len(k1) THEN Len(k2) ELSE Len(k1)
    IN  longestPrefixFrom(k1, k2, 0, max)

----------------------------------------------------------------------------
(* Nodes and edges *)

NewNode == [leaf |-> <<>>, prefix |-> <<>>, edges |-> <<>>]

NewLeaf(v) == <<[val |-> v]>>

HasValue(n) == n.leaf # <<>>

Value(n) == IF ~HasValue(n) THEN Nil ELSE n.leaf[1].val

\* the assignment through the pointer held by edge idx of n
SetChild(n, idx, c) == [n EXCEPT !.edges[idx].node = c]

RECURSIVE InsertSorted(_, _)
InsertSorted(es, e) ==
    IF es = <<>> THEN <<e>>
    ELSE IF e.label < es[Len(es)].label
         THEN Append(InsertSorted(Take(es, Len(es) - 1), e), es[Len(es)])
         ELSE Append(es, e)

RECURSIVE SortEdges(_)
SortEdges(es) ==
    IF es = <<>> THEN <<>>
    ELSE InsertSorted(SortEdges(Take(es, Len(es) - 1)), es[Len(es)])

\* addEdge without the Sort
addEdge_Unsorted(n, e) == [n EXCEPT !.edges = Append(n.edges, e)]

addEdge(n, e) == [n EXCEPT !.edges = SortEdges(Append(n.edges, e))]

\* sort.Search(num, func(i) edges[i].label >= label), indices from 0
RECURSIVE sortSearch(_, _, _, _)

\* the search with label > in place of label >=
sortSearch_Strict(es, label, lo, hi) ==
    IF lo < hi
    THEN LET h == (lo + hi) \div 2
         IN  IF ~(es[h + 1].label > label)
             THEN sortSearch(es, label, h + 1, hi)
             ELSE sortSearch(es, label, lo, h)
    ELSE lo

sortSearch(es, label, lo, hi) ==
    IF lo < hi
    THEN LET h == (lo + hi) \div 2
         IN  IF ~(es[h + 1].label >= label)
             THEN sortSearch(es, label, h + 1, hi)
             ELSE sortSearch(es, label, lo, h)
    ELSE lo

hasEdgeAt(n, label) ==
    LET num == Len(n.edges)
        idx == sortSearch(n.edges, label, 0, num)
    IN  idx < num /\ n.edges[idx + 1].label = label

\* updateEdge panics ("replacing missing Edge") when no edge has the label
updateEdgePanics(n, label) == ~hasEdgeAt(n, label)

updateEdge(n, label, node) ==
    LET idx == sortSearch(n.edges, label, 0, Len(n.edges))
    IN  IF hasEdgeAt(n, label)
        THEN [n EXCEPT !.edges[idx + 1].node = node]
        ELSE n

\* the binary search of getEdge; the index (from 1) of the edge, 0 for nil
RECURSIVE getEdgeFrom(_, _, _, _)
getEdgeFrom(es, label, left, right) ==
    IF left <= right
    THEN LET i == (left + right) \div 2
             edgeLabel == es[i].label
         IN  IF edgeLabel < label THEN getEdgeFrom(es, label, i + 1, right)
             ELSE IF edgeLabel > label THEN getEdgeFrom(es, label, left, i - 1)
             ELSE i
    ELSE 0

getEdge(n, label) == getEdgeFrom(n.edges, label, 1, Len(n.edges))

delEdge(n, label) ==
    LET num == Len(n.edges)
        idx == sortSearch(n.edges, label, 0, num)
    IN  IF hasEdgeAt(n, label)
        THEN [n EXCEPT !.edges = Take(n.edges, idx) \o Drop(n.edges, idx + 1)]
        ELSE n

\* mergeChild without n.prefix = n.prefix + child.prefix
mergeChild_KeepsPrefix(n) ==
    LET child == n.edges[1].node
    IN  [n EXCEPT !.leaf = child.leaf,
                  !.edges = child.edges]

\* mergeChild without n.leaf = child.leaf
mergeChild_KeepsLeaf(n) ==
    LET child == n.edges[1].node
    IN  [n EXCEPT !.prefix = n.prefix \o child.prefix,
                  !.edges = child.edges]

mergeChild(n) ==
    LET child == n.edges[1].node
    IN  [n EXCEPT !.prefix = n.prefix \o child.prefix,
                  !.leaf = child.leaf,
                  !.edges = child.edges]

----------------------------------------------------------------------------
(* Insert *)

\* the result of Insert on the subtree of n: the subtree afterwards, the two
\* values returned, the growth of size, and whether updateEdge panicked
RECURSIVE insertAt(_, _, _)
insertAt(n, search, v) ==
    IF Len(search) = 0
    THEN IF HasValue(n)
         THEN [node |-> [n EXCEPT !.leaf[1].val = v], old |-> n.leaf[1].val,
               updated |-> TRUE, grown |-> 0, panic |-> FALSE]
         ELSE [node |-> [n EXCEPT !.leaf = NewLeaf(v)], old |-> Nil,
               updated |-> FALSE, grown |-> 1, panic |-> FALSE]
    ELSE
    LET parent == n
        idx == getEdge(parent, search[1])
    IN  IF idx = 0
        THEN LET e == [label |-> search[1],
                       node |-> [leaf |-> NewLeaf(v), prefix |-> search,
                                 edges |-> <<>>]]
             IN  [node |-> addEdge(parent, e), old |-> Nil,
                  updated |-> FALSE, grown |-> 1, panic |-> FALSE]
        ELSE
        LET m == parent.edges[idx].node
            commonPrefix == longestPrefix(search, m.prefix)
        IN  IF commonPrefix = Len(m.prefix)
            THEN LET r == insertAt(m, Drop(search, commonPrefix), v)
                 IN  [r EXCEPT !.node = SetChild(parent, idx, r.node)]
            ELSE
            \* split the node
            LET child0 == [leaf |-> <<>>, prefix |-> Take(search, commonPrefix),
                           edges |-> <<>>]
                child1 == addEdge(child0,
                                  [label |-> m.prefix[commonPrefix + 1],
                                   node |-> [m EXCEPT !.prefix =
                                                Drop(m.prefix, commonPrefix)]])
                rest == Drop(search, commonPrefix)
                child2 == IF Len(rest) = 0
                          THEN [child1 EXCEPT !.leaf = NewLeaf(v)]
                          ELSE addEdge(child1,
                                       [label |-> rest[1],
                                        node |-> [leaf |-> NewLeaf(v),
                                                  prefix |-> rest,
                                                  edges |-> <<>>]])
            IN  IF updateEdgePanics(parent, search[1])
                THEN [node |-> parent, old |-> Nil, updated |-> FALSE,
                      grown |-> 1, panic |-> TRUE]
                ELSE [node |-> updateEdge(parent, search[1], child2),
                      old |-> Nil, updated |-> FALSE, grown |-> 1,
                      panic |-> FALSE]

\* t is the Tree: its root and its size
TreeInsert(t, s, v) ==
    LET r == insertAt(t.root, s, v)
    IN  [root |-> r.node, size |-> t.size + r.grown, old |-> r.old,
         updated |-> r.updated, panic |-> r.panic]

----------------------------------------------------------------------------
(* Delete *)

NotDeleted(n) == [node |-> n, val |-> IntVal(0), deleted |-> FALSE]

\* the code after the DELETE label, for the node n at edge idx of parent
deleteChild(parent, idx, parentIsRoot) ==
    LET n == parent.edges[idx].node
        label == parent.edges[idx].label
        n1 == [n EXCEPT !.leaf = <<>>]
        \* delete this node from the parent
        p1 == IF Len(n1.edges) = 0 THEN delEdge(parent, label)
              ELSE SetChild(parent, idx, n1)
        \* merge this node
        p2 == IF Len(n1.edges) = 1 THEN SetChild(p1, idx, mergeChild(n1))
              ELSE p1
        \* merge the parent's other child
        p3 == IF ~parentIsRoot /\ Len(p2.edges) = 1 /\ ~HasValue(p2)
              THEN mergeChild(p2) ELSE p2
    IN  [node |-> p3, val |-> n.leaf[1].val, deleted |-> TRUE]

\* the loop of Delete from the node parent on, search not empty
RECURSIVE deleteFrom(_, _, _)

\* Delete that follows the edge of the label without comparing the prefix
deleteFrom_LabelOnly(parent, search, parentIsRoot) ==
    LET label == search[1]
        idx == getEdge(parent, label)
    IN  IF idx = 0 THEN NotDeleted(parent)
        ELSE
        LET n == parent.edges[idx].node
            rest == IF Len(n.prefix) >= Len(search) THEN <<>>
                    ELSE Drop(search, Len(n.prefix))
        IN  IF Len(rest) = 0
            THEN IF ~HasValue(n) THEN NotDeleted(parent)
                 ELSE deleteChild(parent, idx, parentIsRoot)
            ELSE LET r == deleteFrom(n, rest, FALSE)
                 IN  [r EXCEPT !.node = SetChild(parent, idx, r.node)]

deleteFrom(parent, search, parentIsRoot) ==
    LET label == search[1]
        idx == getEdge(parent, label)
    IN  IF idx = 0 THEN NotDeleted(parent)
        ELSE
        LET n == parent.edges[idx].node
        IN  IF ~HasPrefix(search, n.prefix) THEN NotDeleted(parent)
            ELSE
            LET rest == Drop(search, Len(n.prefix))
            IN  IF Len(rest) = 0
                THEN IF ~HasValue(n) THEN NotDeleted(parent)
                     ELSE deleteChild(parent, idx, parentIsRoot)
                ELSE LET r == deleteFrom(n, rest, FALSE)
                     IN  [r EXCEPT !.node = SetChild(parent, idx, r.node)]

TreeDelete(t, s) ==
    LET r == IF Len(s) = 0
             THEN IF ~HasValue(t.root) THEN NotDeleted(t.root)
                  ELSE [node |-> [t.root EXCEPT !.leaf = <<>>],
                        val |-> t.root.leaf[1].val, deleted |-> TRUE]
             ELSE deleteFrom(t.root, s, TRUE)
    IN  [root |-> r.node, size |-> IF r.deleted THEN t.size - 1 ELSE t.size,
         val |-> r.val, deleted |-> r.deleted]

----------------------------------------------------------------------------
(* Walks *)

RECURSIVE recursiveWalk(_, _)
RECURSIVE walkEdges(_, _, _)

\* recursiveWalk that visits the children before the node's own value
recursiveWalk_ChildrenFirst(prefix, n) ==
    LET newPrefix == prefix \o n.prefix
    IN  walkEdges(newPrefix, n.edges, 1)
        \o (IF n.leaf # <<>> THEN <<[key |-> newPrefix, val |-> n.leaf[1].val]>>
            ELSE <<>>)

\* the calls of a callback that never stops the walk, in order
recursiveWalk(prefix, n) ==
    LET newPrefix == prefix \o n.prefix
    IN  (IF n.leaf # <<>> THEN <<[key |-> newPrefix, val |-> n.leaf[1].val]>>
         ELSE <<>>)
        \o walkEdges(newPrefix, n.edges, 1)

walkEdges(newPrefix, es, i) ==
    IF i > Len(es) THEN <<>>
    ELSE recursiveWalk(newPrefix, es[i].node) \o walkEdges(newPrefix, es, i + 1)

Walk(parent, prefix) == recursiveWalk(prefix, parent)

\* out[k] = v for every call, the later call winning
ToMap(t) ==
    LET calls == Walk(t.root, <<>>)
        keys == {calls[i].key : i \in 1..Len(calls)}
        lastCall(k) == CHOOSE i \in 1..Len(calls) :
                          /\ calls[i].key = k
                          /\ \A j \in 1..Len(calls) : calls[j].key = k => j <= i
    IN  [k \in keys |-> calls[lastCall(k)].val]

\* the calls WalkPrefix makes to a callback that never stops the walk
RECURSIVE walkPrefixFrom(_, _, _)

\* WalkPrefix without lcp += n.prefix
walkPrefixFrom_NoLcp(n, search, lcp) ==
    IF Len(search) = 0 THEN recursiveWalk(lcp, n)
    ELSE
    LET idx == getEdge(n, search[1])
    IN  IF idx = 0 THEN <<>>
        ELSE
        LET m == n.edges[idx].node
        IN  IF HasPrefix(search, m.prefix)
            THEN walkPrefixFrom(m, Drop(search, Len(m.prefix)), lcp)
            ELSE IF HasPrefix(m.prefix, search)
                 THEN recursiveWalk(lcp, m)
                 ELSE <<>>

walkPrefixFrom(n, search, lcp) ==
    IF Len(search) = 0 THEN recursiveWalk(lcp, n)
    ELSE
    LET lcp1 == lcp \o n.prefix
        idx == getEdge(n, search[1])
    IN  IF idx = 0 THEN <<>>
        ELSE
        LET m == n.edges[idx].node
        IN  IF HasPrefix(search, m.prefix)
            THEN walkPrefixFrom(m, Drop(search, Len(m.prefix)), lcp1)
            ELSE IF HasPrefix(m.prefix, search)
                 \* the child may be under the search prefix
                 THEN recursiveWalk(lcp1, m)
                 ELSE <<>>

WalkPrefix(t, prefix) == walkPrefixFrom(t.root, prefix, <<>>)

\* the calls WalkPath makes to a callback that never stops the walk
RECURSIVE walkPathFrom(_, _, _)

\* WalkPath that goes on into a child whose prefix the path does not match
walkPathFrom_NoPrefixTest(n, search, prefix) ==
    LET visit == IF n.leaf # <<>>
                 THEN <<[key |-> prefix, val |-> n.leaf[1].val]>>
                 ELSE <<>>
    IN  IF Len(search) = 0 THEN visit
        ELSE
        LET idx == getEdge(n, search[1])
        IN  IF idx = 0 THEN visit
            ELSE
            LET m == n.edges[idx].node
            IN  visit \o walkPathFrom(m, Drop(search, Len(m.prefix)),
                                      prefix \o m.prefix)

walkPathFrom(n, search, prefix) ==
    LET visit == IF n.leaf # <<>>
                 THEN <<[key |-> prefix, val |-> n.leaf[1].val]>>
                 ELSE <<>>
    IN  IF Len(search) = 0 THEN visit
        ELSE
        LET idx == getEdge(n, search[1])
        IN  IF idx = 0 THEN visit
            ELSE
            LET m == n.edges[idx].node
            IN  IF HasPrefix(search, m.prefix)
                THEN visit \o walkPathFrom(m, Drop(search, Len(m.prefix)),
                                           prefix \o m.prefix)
                ELSE visit

WalkPath(t, path) == walkPathFrom(t.root, path, <<>>)

----------------------------------------------------------------------------
(* DeletePrefix *)

\* the subtree is counted but only the node's own value is removed
clearSubtree_KeepsEdges(n) ==
    [node |-> [n EXCEPT !.leaf = <<>>],
     count |-> Len(recursiveWalk(<<>>, n))]

\* key exhaustion at node n: the cleared node and the number of values under it
clearSubtree(n) ==
    [node |-> [n EXCEPT !.leaf = <<>>, !.edges = <<>>],
     count |-> Len(recursiveWalk(<<>>, n))]

\* deletePrefix(parent, n, prefix) for a prefix that is not empty
RECURSIVE deletePrefix(_, _, _)
deletePrefix(n, prefix, nIsRoot) ==
    LET label == prefix[1]
        idx == getEdge(n, label)
    IN  IF idx = 0 THEN [node |-> n, count |-> 0]
        ELSE
        LET child == n.edges[idx].node
        IN  IF ~HasPrefix(child.prefix, prefix) /\ ~HasPrefix(prefix, child.prefix)
            THEN [node |-> n, count |-> 0]
            ELSE
            LET rest == IF Len(child.prefix) > Len(prefix)
                        THEN Drop(prefix, Len(prefix))
                        ELSE Drop(prefix, Len(child.prefix))
            IN  IF Len(rest) = 0
                THEN LET c == clearSubtree(child)
                         p1 == SetChild(n, idx, c.node)
                         p2 == IF ~nIsRoot /\ Len(p1.edges) = 1 /\ ~HasValue(p1)
                               THEN mergeChild(p1) ELSE p1
                     IN  [node |-> p2, count |-> c.count]
                ELSE LET r == deletePrefix(child, rest, FALSE)
                     IN  [r EXCEPT !.node = SetChild(n, idx, r.node)]

\* DeletePrefix that counts the removed keys but keeps size as it was
TreeDeletePrefix_KeepsSize(t, s) ==
    LET r == IF Len(s) = 0 THEN clearSubtree(t.root)
             ELSE deletePrefix(t.root, s, TRUE)
    IN  [root |-> r.node, size |-> t.size, count |-> r.count]

TreeDeletePrefix(t, s) ==
    LET r == IF Len(s) = 0 THEN clearSubtree(t.root)
             ELSE deletePrefix(t.root, s, TRUE)
    IN  [root |-> r.node, size |-> t.size - r.count, count |-> r.count]

----------------------------------------------------------------------------
(* Lookups *)

RECURSIVE findFrom(_, _, _, _)
findFrom(n, s, search, lastLeafNode) ==
    LET result(nn, sr, ll) ==
            [isFound |-> Len(sr) = 0, prefixLen |-> Len(s) - Len(sr),
             lastLeafNode |-> ll, lastNode |-> nn]
    IN  IF Len(search) = 0 THEN result(n, search, lastLeafNode)
        ELSE
        LET ll == IF HasValue(n) THEN <<n>> ELSE lastLeafNode
            idx == getEdge(n, search[1])
        IN  IF idx = 0 THEN result(n, search, ll)
            ELSE
            LET child == n.edges[idx].node
            IN  IF HasPrefix(search, child.prefix)
                THEN findFrom(child, s, Drop(search, Len(child.prefix)), ll)
                ELSE result(child, search, ll)

Find(parent, s) == findFrom(parent, s, s, <<>>)

Get(t, s) ==
    LET f == Find(t.root, s)
    IN  IF ~f.isFound THEN [val |-> IntVal(0), found |-> FALSE]
        ELSE [val |-> Value(f.lastNode), found |-> TRUE]

\* the fourth result of Find is the one LongestPrefix names lastLeafNode
LongestPrefix(t, s) ==
    LET f == Find(t.root, s)
        prefixLen == f.prefixLen
        lastLeafNode == f.lastNode
    IN  [key |-> Take(s, prefixLen), val |-> Value(lastLeafNode), found |-> TRUE]

RECURSIVE minimumFrom(_, _)
minimumFrom(n, prefix) ==
    IF HasValue(n) THEN [key |-> prefix, val |-> n.leaf[1].val, found |-> TRUE]
    ELSE IF Len(n.edges) > 0
         THEN LET m == n.edges[1].node IN minimumFrom(m, prefix \o m.prefix)
         ELSE [key |-> <<>>, val |-> Nil, found |-> FALSE]

Minimum(t) == minimumFrom(t.root, <<>>)

RECURSIVE maximumFrom(_, _)
maximumFrom(n, prefix) ==
    IF Len(n.edges) > 0
    THEN LET m == n.edges[Len(n.edges)].node IN maximumFrom(m, prefix \o m.prefix)
    ELSE IF HasValue(n)
         THEN [key |-> prefix, val |-> n.leaf[1].val, found |-> TRUE]
         ELSE [key |-> <<>>, val |-> Nil, found |-> FALSE]

Maximum(t) == maximumFrom(t.root, <<>>)

----------------------------------------------------------------------------
(* The tree as a state machine.  stored is the history of the calls: the   *)
(* keys inserted and not removed since, each with the value of its most    *)
(* recent Insert.                                                          *)

Put(m, k, v) == [x \in DOMAIN m \cup {k} |-> IF x = k THEN v ELSE m[x]]
Without(m, ks) == [x \in DOMAIN m \ ks |-> m[x]]
WithPrefix(m, p) == {k \in DOMAIN m : HasPrefix(k, p)}

RECURSIVE NodeCount(_)
RECURSIVE EdgesNodeCount(_, _)
NodeCount(n) == 1 + EdgesNodeCount(n.edges, 1)
EdgesNodeCount(es, i) ==
    IF i > Len(es) THEN 0 ELSE NodeCount(es[i].node) + EdgesNodeCount(es, i + 1)

\* the Tree of the current state
Tree == [root |-> root, size |-> size]

Init ==
    /\ root = NewNode
    /\ size = 0
    /\ stored = <<>>
    /\ panicked = FALSE

Insert(s, v) ==
    /\ ~panicked
    /\ LET r == TreeInsert(Tree, s, v)
       IN  /\ NodeCount(r.root) <= MaxNodes
           /\ root' = r.root
           /\ size' = r.size
           /\ panicked' = r.panic
    /\ stored' = Put(stored, s, v)

Delete(s) ==
    /\ ~panicked
    /\ LET r == TreeDelete(Tree, s)
       IN  /\ root' = r.root
           /\ size' = r.size
    /\ stored' = Without(stored, {s})
    /\ UNCHANGED panicked

DeletePrefix(s) ==
    /\ ~panicked
    /\ LET r == TreeDeletePrefix(Tree, s)
       IN  /\ root' = r.root
           /\ size' = r.size
    /\ stored' = Without(stored, WithPrefix(stored, s))
    /\ UNCHANGED panicked

Next ==
    \/ \E s \in Keys, v \in Values : Insert(s, v)
    \/ \E s \in Keys : Delete(s)
    \/ \E s \in Keys : DeletePrefix(s)

Spec == Init /\ [][Next]_vars

\* the trees that Insert alone builds from the empty tree
NextInsert == \E s \in Keys, v \in Values : Insert(s, v)

SpecInsert == Init /\ [][NextInsert]_vars

\* NewFromMap: the entries of a map, whose keys are unique, are inserted one
\* by one in the order the range loop happens to take; stored is the map of
\* the entries inserted so far
FromMapInsert(s, v) == s \notin DOMAIN stored /\ Insert(s, v)

NextFromMap == \E s \in Keys, v \in Values : FromMapInsert(s, v)

SpecFromMap == Init /\ [][NextFromMap]_vars

----------------------------------------------------------------------------
(* Notions the properties are stated with *)

\* the nodes of the subtree of n, each with its full key; prefix is the key
\* of the parent of n
RECURSIVE KeyedNodes(_, _)
KeyedNodes(n, prefix) ==
    {[key |-> prefix \o n.prefix, node |-> n]} \cup
    UNION {KeyedNodes(n.edges[i].node, prefix \o n.prefix) :
           i \in 1..Len(n.edges)}

\* the pointers to the nodes that hold the value of the key k
ValueNodesOf(k) ==
    {<<kn.node>> : kn \in {x \in KeyedNodes(root, <<>>) :
                              x.key = k /\ HasValue(x.node)}}

\* the nodes below n (n excluded)
RECURSIVE Descendants(_)
Descendants(n) ==
    UNION {{n.edges[i].node} \cup Descendants(n.edges[i].node) :
           i \in 1..Len(n.edges)}

\* the number of nodes of the subtree of n that hold a value
RECURSIVE ValueNodes(_)
RECURSIVE EdgesValueNodes(_, _)
ValueNodes(n) == (IF HasValue(n) THEN 1 ELSE 0) + EdgesValueNodes(n.edges, 1)
EdgesValueNodes(es, i) ==
    IF i > Len(es) THEN 0 ELSE ValueNodes(es[i].node) + EdgesValueNodes(es, i + 1)

\* a node without value and without children
Empty(n) == ~HasValue(n) /\ Len(n.edges) = 0

\* the stored keys that are a prefix of s
StoredPrefixes(s) == {k \in DOMAIN stored : HasPrefix(s, k)}

Longest(ks) == CHOOSE k \in ks : \A j \in ks : Len(j) <= Len(k)

\* the orders in which the keys of ks can be deleted one by one
Orders(ks) ==
    {o \in [1..Cardinality(ks) -> ks] :
        \A i, j \in 1..Cardinality(ks) : i # j => o[i] # o[j]}

\* a < b in lexicographic byte order
LexLess(a, b) ==
    \E i \in 0..Len(a) :
        /\ i <= Len(b)
        /\ Take(a, i) = Take(b, i)
        /\ \/ i = Len(a) /\ i < Len(b)
           \/ i < Len(a) /\ i < Len(b) /\ a[i + 1] < b[i + 1]

\* the calls of a walk as a set of key-value pairs, and as the keys in order
Visited(calls) == {<<calls[i].key, calls[i].val>> : i \in 1..Len(calls)}
VisitedKeys(calls) == [i \in 1..Len(calls) |-> calls[i].key]
Increasing(calls) ==
    \A i \in 1..Len(calls) - 1 : LexLess(calls[i].key, calls[i + 1].key)
Entries(ks) == {<<k, stored[k]>> : k \in ks}

\* the Tree with the root and size of a call's result
After(r) == [root |-> r.root, size |-> r.size]

\* Delete(ks[i]) for i = from, from + 1, ..., on the Tree t
RECURSIVE DeleteEach(_, _, _)
DeleteEach(t, ks, from) ==
    IF from > Len(ks) THEN t
    ELSE DeleteEach(After(TreeDelete(t, ks[from])), ks, from + 1)

----------------------------------------------------------------------------
(* Properties *)

\* C1: after any sequence of Insert calls on an empty tree, Get(k) finds every
\* inserted key k (the empty key too) with the value of its most recent
\* Insert, and Len() is the number of distinct keys inserted.
C1_InsertThenGet ==
    /\ \A k \in DOMAIN stored : Get(Tree, k) = [val |-> stored[k], found |-> TRUE]
    /\ size = Cardinality(DOMAIN stored)

\* three keys, the empty key among them, one of them splitting a node
C1_Witness ==
    /\ size = 3
    /\ <<>> \in DOMAIN stored
    /\ \E n \in Descendants(root) : Len(n.edges) = 1 /\ Len(n.prefix) = 1
    /\ \E k \in DOMAIN stored : Len(k) = MaxKeyLen /\ Get(Tree, k).found

\* C2: after any sequence of Insert, Delete and DeletePrefix, Get(k) reports
\* found = true exactly when k is stored (inserted and not removed since).
C2_GetFoundIffStored ==
    \A k \in Keys : Get(Tree, k).found <=> k \in DOMAIN stored

\* C3: in any reachable tree, Insert(k, v) followed by Delete(k) returns
\* (v, true) from the Delete, and Get(k) right after reports found = false.
C3_InsertDeleteGet ==
    \A k \in Keys, v \in Values :
        LET i == TreeInsert(Tree, k, v)
            d == TreeDelete(After(i), k)
        IN  /\ d.deleted
            /\ d.val = v
            /\ ~Get(After(d), k).found

\* C4: after any interleaving of Insert, Delete and DeletePrefix every node
\* but the root holds a value or has at least two children.
C4_Compacted ==
    \A n \in Descendants(root) : HasValue(n) \/ Len(n.edges) >= 2

\* C5: in every reachable state the size counter equals the number of nodes
\* reachable from the root that hold a value.
C5_SizeCountsValues == size = ValueNodes(root)

\* two stored keys next to a node that DeletePrefix has emptied
C5_Witness ==
    /\ size = 2
    /\ \E n \in Descendants(root) : Empty(n)
    /\ \E k \in DOMAIN stored : Len(k) >= 2

\* C6: LongestPrefix(s) returns the longest stored key that is a prefix of s,
\* with the value stored under that key.
C6_LongestPrefixStored ==
    \A s \in Keys :
        StoredPrefixes(s) # {} =>
            LET r == LongestPrefix(Tree, s)
            IN  /\ r.key = Longest(StoredPrefixes(s))
                /\ r.val = stored[Longest(StoredPrefixes(s))]

\* C7: LongestPrefix(s) always reports found = true, and returns the nil
\* value whenever no stored key is a prefix of s.
C7_LongestPrefixNilValue ==
    \A s \in Keys :
        LET r == LongestPrefix(Tree, s)
        IN  /\ r.found
            /\ StoredPrefixes(s) = {} => r.val = Nil

\* C8: on an empty tree Get(k) reports found = false for every key k, Minimum
\* and Maximum report found = false, and LongestPrefix(k) returns the empty
\* key with the nil value.
C8_EmptyTree ==
    (root = NewNode /\ size = 0) =>
        /\ \A k \in Keys :
              /\ ~Get(Tree, k).found
              /\ LongestPrefix(Tree, k).key = <<>>
              /\ LongestPrefix(Tree, k).val = Nil
        /\ ~Minimum(Tree).found
        /\ ~Maximum(Tree).found

\* C9: from any reachable tree DeletePrefix(p) leaves the same key-to-value
\* mapping (ToMap) and the same Len() as Delete(k) called once for every
\* stored key k that has p as a prefix, in whatever order.
C9_DeletePrefixAsDeletes ==
    \A p \in Keys :
        LET dp == TreeDeletePrefix(Tree, p)
        IN  \A o \in Orders(WithPrefix(stored, p)) :
                LET each == DeleteEach(Tree, o, 1)
                IN  /\ ToMap(After(dp)) = ToMap(each)
                    /\ dp.size = each.size

\* a prefix inside a compressed prefix with two keys under it, another key left
C9_Witness ==
    \E p \in Keys :
        /\ Cardinality(WithPrefix(stored, p)) = 2
        /\ p \notin DOMAIN stored
        /\ DOMAIN stored # WithPrefix(stored, p)
        /\ TreeDeletePrefix(Tree, p).count = 2
        /\ DOMAIN ToMap(After(TreeDeletePrefix(Tree, p))) =
               DOMAIN stored \ WithPrefix(stored, p)

\* C10: DeletePrefix(p) returns the number of keys stored right before the
\* call that have p as a prefix, and Len() decreases by that number.
C10_DeletePrefixCount ==
    \A p \in Keys :
        LET r == TreeDeletePrefix(Tree, p)
        IN  /\ r.count = Cardinality(WithPrefix(stored, p))
            /\ r.size = size - r.count

\* a DeletePrefix has left its emptied node behind, next to a stored key
C10_Witness ==
    /\ \E n \in Descendants(root) : Empty(n) /\ Len(n.prefix) >= 2
    /\ size >= 1

\* C11: whenever Len() > 0, Minimum() returns found = true with the smallest
\* stored key in lexicographic order and its value; it returns found = false
\* only when no key is stored.
C11_MinimumIsSmallest ==
    LET r == Minimum(Tree)
    IN  /\ size > 0 =>
              /\ r.found
              /\ r.key \in DOMAIN stored
              /\ \A k \in DOMAIN stored : k = r.key \/ LexLess(r.key, k)
              /\ r.val = stored[r.key]
        /\ ~r.found => DOMAIN stored = {}

\* C12: whenever Len() > 0, Maximum() returns found = true with the largest
\* stored key in lexicographic order and its value; it returns found = false
\* only when no key is stored.
C12_MaximumIsLargest ==
    LET r == Maximum(Tree)
    IN  /\ size > 0 =>
              /\ r.found
              /\ r.key \in DOMAIN stored
              /\ \A k \in DOMAIN stored : k = r.key \/ LexLess(k, r.key)
              /\ r.val = stored[r.key]
        /\ ~r.found => DOMAIN stored = {}

\* C13: in any reachable tree, Walk from the root with a callback that never
\* stops is called exactly once for every stored key, with the key and its
\* current value, the keys in strictly increasing lexicographic order.
C13_WalkInOrder ==
    LET calls == Walk(root, <<>>)
    IN  /\ Visited(calls) = Entries(DOMAIN stored)
        /\ Len(calls) = Cardinality(DOMAIN stored)
        /\ Increasing(calls)

\* a key, a key extending it and a key in another branch are walked
C13_Witness ==
    /\ Len(Walk(root, <<>>)) = 3
    /\ \E k, j \in DOMAIN stored : k # j /\ HasPrefix(j, k) /\ k # <<>>
    /\ \E k, j \in DOMAIN stored : ~HasPrefix(j, k) /\ ~HasPrefix(k, j)

\* C14: in any reachable tree and for every prefix p, WalkPrefix(p) with a
\* callback that never stops visits exactly the stored keys that have p as a
\* prefix, each with its key and value, in increasing lexicographic order,
\* and nothing when no stored key has the prefix p.
C14_WalkPrefixVisitsUnder ==
    \A p \in Keys :
        LET calls == WalkPrefix(Tree, p)
        IN  /\ Visited(calls) = Entries(WithPrefix(stored, p))
            /\ Len(calls) = Cardinality(WithPrefix(stored, p))
            /\ Increasing(calls)

\* a prefix that ends inside a node's compressed prefix, with keys under it
\* and a key outside it
C14_Witness ==
    \E p \in Keys :
        /\ Len(WalkPrefix(Tree, p)) = 2
        /\ p # <<>>
        /\ ~Find(root, p).isFound
        /\ WithPrefix(stored, p) # DOMAIN stored

\* C15: in any reachable tree and for every key s, WalkPath(s) with a callback
\* that never stops visits exactly the stored keys that are prefixes of s,
\* each with its key and value, in order of increasing key length.
C15_WalkPathVisitsPrefixes ==
    \A s \in Keys :
        LET calls == WalkPath(Tree, s)
        IN  /\ Visited(calls) = Entries(StoredPrefixes(s))
            /\ Len(calls) = Cardinality(StoredPrefixes(s))
            /\ \A i \in 1..Len(calls) - 1 :
                   Len(calls[i].key) < Len(calls[i + 1].key)

\* a path with three stored prefixes, itself among them
C15_Witness ==
    \E s \in DOMAIN stored :
        /\ Len(WalkPath(Tree, s)) = 3
        /\ Len(s) = MaxKeyLen

\* C16: for every map m with unique keys (the empty key allowed) and every
\* order of insertion, NewFromMap(m).ToMap() equals m and NewFromMap(m).Len()
\* is the number of entries of m.
C16_FromMapToMap ==
    /\ ToMap(Tree) = stored
    /\ size = Cardinality(DOMAIN stored)

\* a map of three entries, the empty key among them, two keys sharing a
\* node that holds no value
C16_Witness ==
    /\ Cardinality(DOMAIN ToMap(Tree)) = 3
    /\ <<>> \in DOMAIN ToMap(Tree)
    /\ \E n \in Descendants(root) : ~HasValue(n) /\ Len(n.edges) = 2

\* C17: Delete(k) for a key k that is not stored returns existed = false and
\* leaves the tree unchanged: the same nodes, prefixes, values, edge lists
\* and size.
C17_DeleteMissingKeepsTree ==
    \A k \in Keys \ DOMAIN stored :
        LET d == TreeDelete(Tree, k)
        IN  /\ ~d.deleted
            /\ d.root = root
            /\ d.size = size

\* missing keys of the three kinds: no edge, a node prefix not fully
\* matched, and a key that ends at a node without value
C17_Witness ==
    /\ \E k \in Keys \ DOMAIN stored :
           LET f == Find(root, k)
           IN  ~f.isFound /\ getEdge(f.lastNode, k[f.prefixLen + 1]) = 0
    /\ \E k \in Keys \ DOMAIN stored :
           LET f == Find(root, k)
           IN  ~f.isFound /\ f.lastNode.prefix # <<>>
                          /\ ~HasPrefix(Drop(k, f.prefixLen), f.lastNode.prefix)
                          /\ k[f.prefixLen + 1] = f.lastNode.prefix[1]
    /\ \E k \in Keys \ DOMAIN stored :
           Find(root, k).isFound /\ k # <<>> /\ ~TreeDelete(Tree, k).deleted
    /\ size >= 2

\* C18: Insert(k, v) and a successful Delete(k) change the stored mapping at
\* k only; Len() grows by 1 for a new key, stays for a replaced key and
\* drops by 1 for a deleted key.
C18_OnlyTheKeyChanges ==
    /\ \A k \in Keys, v \in Values :
           LET i == TreeInsert(Tree, k, v)
           IN  /\ ToMap(After(i)) = Put(stored, k, v)
               /\ i.size = IF k \in DOMAIN stored THEN size ELSE size + 1
               /\ i.updated <=> k \in DOMAIN stored
    /\ \A k \in DOMAIN stored :
           LET d == TreeDelete(Tree, k)
           IN  /\ d.deleted
               /\ ToMap(After(d)) = Without(stored, {k})
               /\ d.size = size - 1

\* an Insert that splits a node and a Delete that merges one, with another
\* key stored
C18_Witness ==
    /\ \E k \in Keys, v \in Values :
           NodeCount(TreeInsert(Tree, k, v).root) = NodeCount(root) + 2
    /\ \E k \in DOMAIN stored :
           NodeCount(TreeDelete(Tree, k).root) = NodeCount(root) - 2
    /\ Cardinality(DOMAIN stored) >= 2

\* C19: no sequence of Insert, Delete and DeletePrefix reaches the panic of
\* updateEdge: whenever Insert calls updateEdge(label, .) the parent has an
\* edge with that label.
C19_NoMissingEdge ==
    /\ ~panicked
    /\ \A k \in Keys, v \in Values : ~TreeInsert(Tree, k, v).panic

\* an Insert splits a node below a node with two edges, after a DeletePrefix
C19_Witness ==
    /\ \E n \in Descendants(root) : Empty(n)
    /\ \E k \in Keys, v \in Values :
           LET i == TreeInsert(Tree, k, v)
           IN  /\ NodeCount(i.root) = NodeCount(root) + 2
               /\ Len(i.root.edges) = 2
               /\ ~i.panic

\* C20: Find(root, s) reports as its last value-bearing node the node of the
\* longest stored key that is a prefix of s (the node of s itself when s is
\* stored), and no node when no stored key is a prefix of s.
C20_FindLastLeafNode ==
    \A s \in Keys :
        LET f == Find(root, s)
        IN  IF StoredPrefixes(s) = {}
            THEN f.lastLeafNode = <<>>
            ELSE f.lastLeafNode \in ValueNodesOf(Longest(StoredPrefixes(s)))

====
